---- MODULE Spec2Model ----
(***************************************************************************)
(* State-machine model of main.py: the follower job, the post job, the two *)
(* local CSV stores, the remote bucket, the main() entry point, and the    *)
(* follower extractor called on its own.                                   *)
(*                                                                         *)
(* A CSV file is a sequence of lines; a line is a function from column     *)
(* names to cell strings (csv.DictWriter stringifies every value).  The    *)
(* header line maps every column name to itself, as writeheader() does.    *)
(* Python None is the integer None == -1 where the value is otherwise a    *)
(* non-negative integer (a follower count, a number of posts).             *)
(***************************************************************************)
EXTENDS Integers, Sequences, FiniteSets, TLC

\* ------------------------------------------------------------------ bounds
MaxRuns  == 2      \* process lifetimes (one main() each) explored
MaxBatch == 2      \* longest "updates" collection the API returns

\* --------------------------------------------------------------- constants
None          == -1
LINKEDIN_URL  == "https://www.linkedin.com/company/extrastaff-recruitment"
FOLLOWERS_CSV == "linkedin_followers.csv"
POSTS_CSV     == "linkedin_posts.csv"
Names         == {FOLLOWERS_CSV, POSTS_CSV}

\* Python truthiness of an optional integer: None and 0 are falsy.
Truthy(v) == v # None /\ v # 0

\* ------------------------------------------------- text and the extractor
Digits == {"0", "1", "2", "3", "4", "5", "6", "7", "8", "9"}
Space  == {" ", "\t", "\n"}
Tags   == {"<b>", "</b>", "<p>", "</p>"}

DigitVal(c) ==
    CASE c = "0" -> 0 [] c = "1" -> 1 [] c = "2" -> 2 [] c = "3" -> 3
      [] c = "4" -> 4 [] c = "5" -> 5 [] c = "6" -> 6 [] c = "7" -> 7
      [] c = "8" -> 8 [] c = "9" -> 9

\* re.IGNORECASE on the letters the patterns contain.
Lower(c) ==
    CASE c = "F" -> "f" [] c = "O" -> "o" [] c = "L" -> "l" [] c = "W" -> "w"
      [] c = "E" -> "e" [] c = "R" -> "r" [] c = "S" -> "s" [] c = "C" -> "c"
      [] c = "U" -> "u" [] c = "N" -> "n" [] c = "T" -> "t" [] OTHER -> c

\* BeautifulSoup(html).get_text(): the markup is dropped, the text is kept.
GetText(html) == SelectSeq(html, LAMBDA t : t \notin Tags)

FollowersWord     == <<"f", "o", "l", "l", "o", "w", "e", "r", "s">>
FollowerCountWord == <<"f", "o", "l", "l", "o", "w", "e", "r", "C", "o", "u", "n", "t">>
Quotes            == {"\"", "'"}

\* The literal lit occurs in text at position i, letter case ignored.
LitAt(text, i, lit) ==
    /\ i >= 1
    /\ i + Len(lit) - 1 <= Len(text)
    /\ \A k \in 1..Len(lit) : Lower(text[i + k - 1]) = Lower(lit[k])

\* End of the longest run of digits starting at i (text[i] is a digit).
RECURSIVE DigitsEnd(_, _)
DigitsEnd(text, i) ==
    IF i + 1 <= Len(text) /\ text[i + 1] \in Digits
    THEN DigitsEnd(text, i + 1) ELSE i

\* NumEnd for the group \d+ alone: the separators are not part of the number.
NumEnd_NoSeparators(text, i) == DigitsEnd(text, i)

\* End of the greedy group \d+(?:,\d+)* starting at i (text[i] is a digit).
RECURSIVE NumEnd(_, _)
NumEnd(text, i) ==
    LET e == DigitsEnd(text, i) IN
    IF e + 2 <= Len(text) /\ text[e + 1] = "," /\ text[e + 2] \in Digits
    THEN NumEnd(text, e + 2) ELSE e

\* First position >= i that holds no white space (Len(text)+1 at the end).
RECURSIVE SkipWs(_, _)
SkipWs(text, i) ==
    IF i <= Len(text) /\ text[i] \in Space THEN SkipWs(text, i + 1) ELSE i

SkipQuote(text, i) ==
    IF i <= Len(text) /\ text[i] \in Quotes THEN i + 1 ELSE i

\* int(m.group(1).replace(',', ''))
RECURSIVE ParseInt(_)
ParseInt(s) ==
    IF s = <<>> THEN 0
    ELSE LET c == s[Len(s)] IN
         IF c = "," THEN ParseInt(SubSeq(s, 1, Len(s) - 1))
         ELSE 10 * ParseInt(SubSeq(s, 1, Len(s) - 1)) + DigitVal(c)

\* Pattern 1, (\d+(?:,\d+)*)\s+followers, matched at i: <<start, end>> of
\* group 1, or <<0, 0>>.
Match1At(text, i) ==
    IF text[i] \notin Digits THEN <<0, 0>>
    ELSE LET e == NumEnd(text, i)
             w == SkipWs(text, e + 1)
         IN IF w > e + 1 /\ LitAt(text, w, FollowersWord)
            THEN <<i, e>> ELSE <<0, 0>>

\* Pattern 2, followerCount["']?\s*:\s*["']?(\d+(?:,\d+)*), matched at i.
Match2At(text, i) ==
    IF ~LitAt(text, i, FollowerCountWord) THEN <<0, 0>>
    ELSE LET a == SkipWs(text, SkipQuote(text, i + Len(FollowerCountWord)))
         IN IF ~(a <= Len(text) /\ text[a] = ":") THEN <<0, 0>>
            ELSE LET d == SkipQuote(text, SkipWs(text, a + 1))
                 IN IF d <= Len(text) /\ text[d] \in Digits
                    THEN <<d, NumEnd(text, d)>> ELSE <<0, 0>>

\* re.search: the match at the leftmost position where the pattern matches.
Search1(text) ==
    LET hits == {i \in 1..Len(text) : Match1At(text, i)[1] # 0}
    IN IF hits = {} THEN <<0, 0>>
       ELSE Match1At(text, CHOOSE i \in hits : \A j \in hits : i <= j)

Search2(text) ==
    LET hits == {i \in 1..Len(text) : Match2At(text, i)[1] # 0}
    IN IF hits = {} THEN <<0, 0>>
       ELSE Match2At(text, CHOOSE i \in hits : \A j \in hits : i <= j)

extract_followers(html) ==
    LET text == GetText(html)
        m1   == Search1(text)
        m2   == Search2(text)
    IN IF m1[1] # 0 THEN ParseInt(SubSeq(text, m1[1], m1[2]))
       ELSE IF m2[1] # 0 THEN ParseInt(SubSeq(text, m2[1], m2[2]))
       ELSE None


\* ------------------------------------------------------------- CSV files
NoFile == [exists |-> FALSE, lines |-> <<>>]

\* csv.DictWriter.writeheader(): the line that maps each column to its name.
Header(cols) == [c \in cols |-> c]

IsHeader(line) == \A c \in DOMAIN line : line[c] = c

DataRows(file) == SelectSeq(file.lines, LAMBDA l : ~IsHeader(l))

\* The row save_follower_data builds; now is datetime.now(), to the second.
FollowerRow(followers, now) ==
    [timestamp |-> ToString(now), linkedin_url |-> LINKEDIN_URL,
     followers |-> ToString(followers)]

\* save_follower_data with the log opened in mode 'w' instead of 'a'.
save_follower_data_Truncates(file, followers, now, diskOk) ==
    LET row == FollowerRow(followers, now)
    IN IF ~diskOk
       THEN [raised |-> TRUE, ret |-> None, file |-> file]
       ELSE [raised |-> FALSE, ret |-> followers,
             file |-> [exists |-> TRUE,
                       lines |-> (IF file.exists THEN <<>>
                                  ELSE <<Header(DOMAIN row)>>) \o <<row>>]]

\* save_follower_data(followers).  diskOk = FALSE: open() raises OSError and
\* the exception leaves the function; the file is as it was.
save_follower_data(file, followers, now, diskOk) ==
    LET row    == FollowerRow(followers, now)
        exists == file.exists
    IN IF ~diskOk
       THEN [raised |-> TRUE, ret |-> None, file |-> file]
       ELSE [raised |-> FALSE, ret |-> followers,
             file |-> [exists |-> TRUE,
                       lines |-> file.lines
                                 \o (IF exists THEN <<>> ELSE <<Header(DOMAIN row)>>)
                                 \o <<row>>]]

\* save_posts_data(posts): posts is the sequence of update objects.
save_posts_data(file, posts, diskOk) ==
    IF posts = <<>>
    THEN [raised |-> FALSE, ret |-> 0, file |-> file]
    ELSE LET fieldnames == UNION {DOMAIN posts[i] : i \in 1..Len(posts)}
             row(post)  == [f \in fieldnames |->
                               IF f \in DOMAIN post THEN post[f] ELSE ""]
         IN IF ~diskOk
            THEN [raised |-> TRUE, ret |-> None, file |-> file]
            ELSE [raised |-> FALSE, ret |-> Len(posts),
                  file |-> [exists |-> TRUE,
                            lines |-> <<Header(fieldnames)>>
                                      \o [i \in 1..Len(posts) |-> row(posts[i])]]]

\* ------------------------------------------------------------ follower job
\* LinkedInFollowerExtractor.get_followers: resp is what session.get does.
get_followers(resp) ==
    IF resp.kind = "exception" THEN None
    ELSE IF resp.status # 200 THEN None
    ELSE extract_followers(resp.text)

fetch_linkedin_followers(file, resp, now, diskOk) ==
    LET followers == get_followers(resp)
    IN IF Truthy(followers)
       THEN save_follower_data(file, followers, now, diskOk)
       ELSE [raised |-> FALSE, ret |-> None, file |-> file]

\* ---------------------------------------------------------------- post job
\* bool(data) of a decoded JSON value.
JsonTruthy(data) ==
    \/ data.kind = "object"
    \/ data.kind = "array" /\ data.items # <<>>

\* fetch_linkedin_posts without the try/except of lines 124 and 146: what the
\* request, the decoding or the write raises leaves the function.
fetch_linkedin_posts_NoCatch(file, api, diskOk) ==
    LET raise == [raised |-> TRUE, ret |-> None, file |-> file]
        fail  == [raised |-> FALSE, ret |-> None, file |-> file]
    IN IF api.kind = "exception" THEN raise
       ELSE IF api.status >= 400 THEN raise
       ELSE IF api.data.kind = "invalid" THEN raise
       ELSE IF ~JsonTruthy(api.data) \/ api.data.kind # "array" THEN fail
       ELSE LET first == api.data.items[1]
            IN IF first.kind # "object" THEN raise
               ELSE LET posts == IF first.has THEN first.updates ELSE <<>>
                    IN IF posts = <<>>
                       THEN [raised |-> FALSE, ret |-> 0, file |-> file]
                       ELSE save_posts_data(file, posts, diskOk)

\* fetch_linkedin_posts with the shape check of line 135 returning 0, the
\* value of "no new posts", instead of None.
fetch_linkedin_posts_InvalidAsZero(file, api, diskOk) ==
    LET fail == [raised |-> FALSE, ret |-> None, file |-> file]
        zero == [raised |-> FALSE, ret |-> 0, file |-> file]
    IN IF api.kind = "exception" THEN fail
       ELSE IF api.status >= 400 THEN fail
       ELSE IF api.data.kind = "invalid" THEN fail
       ELSE IF ~JsonTruthy(api.data) \/ api.data.kind # "array" THEN zero
       ELSE LET first == api.data.items[1]
            IN IF first.kind # "object" THEN fail
               ELSE LET posts == IF first.has THEN first.updates ELSE <<>>
                    IN IF posts = <<>> THEN zero
                       ELSE LET s == save_posts_data(file, posts, diskOk)
                            IN IF s.raised THEN fail ELSE s

\* fetch_linkedin_posts: api is what requests.get / raise_for_status / json do.
\* Every exception is caught at line 146.
fetch_linkedin_posts(file, api, diskOk) ==
    LET fail == [raised |-> FALSE, ret |-> None, file |-> file]
    IN IF api.kind = "exception" THEN fail
       ELSE IF api.status >= 400 THEN fail
       ELSE IF api.data.kind = "invalid" THEN fail
       ELSE IF ~JsonTruthy(api.data) \/ api.data.kind # "array" THEN fail
       ELSE LET first == api.data.items[1]
            IN IF first.kind # "object" THEN fail
               ELSE LET posts == IF first.has THEN first.updates ELSE <<>>
                    IN IF posts = <<>>
                       THEN [raised |-> FALSE, ret |-> 0, file |-> file]
                       ELSE LET s == save_posts_data(file, posts, diskOk)
                            IN IF s.raised THEN fail ELSE s

\* ------------------------------------------------------------- remote sync
Absent == [exists |-> FALSE, bytes |-> <<>>]

\* get_supabase_client(): the new value of the global, which is also the
\* value returned (FALSE is None).
get_supabase_client(sb, createOk) ==
    IF sb = FALSE THEN createOk ELSE sb

\* client.storage.from_(BUCKET_NAME).remove([file_name])
StorageRemove(obj, out) ==
    IF out = "error"
    THEN [raised |-> TRUE, how |-> "error", obj |-> obj]
    ELSE [raised |-> FALSE, how |-> IF obj.exists THEN "removed" ELSE "absent",
          obj |-> Absent]

\* client.storage.from_(BUCKET_NAME).upload(file_name, file_bytes): a plain
\* create, rejected when the name exists.
StorageUpload(obj, bytes, out) ==
    IF obj.exists THEN [raised |-> TRUE, how |-> "conflict", obj |-> obj]
    ELSE IF out = "error" THEN [raised |-> TRUE, how |-> "error", obj |-> obj]
    ELSE [raised |-> FALSE, how |-> "created",
          obj |-> [exists |-> TRUE, bytes |-> bytes]]

\* One call of upload_csv_to_supabase, as the result record
\*   ret     the value returned
\*   sb      the supabase global afterwards
\*   file    the local file afterwards (it is opened in mode "rb" only)
\*   obj     the remote object afterwards
\*   sync    what the call did: the bytes read, each remote call made, the
\*           value returned and whether an exception left the call
SyncRec(name, client, read, bytes, ops, raised, ret) ==
    [name |-> name, client |-> client, read |-> read, bytes |-> bytes,
     ops |-> ops, raised |-> raised, ret |-> ret]

\* upload_csv_to_supabase without the remove of lines 161-166.
upload_csv_to_supabase_NoRemove(file_name, sb, file, obj, env) ==
    LET client == get_supabase_client(sb, env.createOk)
    IN IF ~client
       THEN [ret |-> FALSE, sb |-> client, file |-> file,
             obj |-> obj,
             sync |-> SyncRec(file_name, FALSE, FALSE, <<>>, <<>>, FALSE, FALSE)]
       ELSE IF ~(file.exists /\ env.readOk)
       THEN [ret |-> FALSE, sb |-> client, file |-> file,
             obj |-> obj,
             sync |-> SyncRec(file_name, TRUE, FALSE, <<>>, <<>>, FALSE, FALSE)]
       ELSE LET file_bytes == file.lines
                up == StorageUpload(obj, file_bytes, env.up)
                ops == << [op |-> "upload", how |-> up.how] >>
            IN [ret |-> ~up.raised, sb |-> client, file |-> file,
                obj |-> up.obj,
                sync |-> SyncRec(file_name, TRUE, TRUE, file_bytes, ops,
                                 FALSE, ~up.raised)]

\* upload_csv_to_supabase with the upload's exception handled like the
\* remove's: logged, and the call goes on to return True.
upload_csv_to_supabase_SwallowsUploadError(file_name, sb, file, obj, env) ==
    LET client == get_supabase_client(sb, env.createOk)
    IN IF ~client
       THEN [ret |-> FALSE, sb |-> client, file |-> file,
             obj |-> obj,
             sync |-> SyncRec(file_name, FALSE, FALSE, <<>>, <<>>, FALSE, FALSE)]
       ELSE IF ~(file.exists /\ env.readOk)
       THEN [ret |-> FALSE, sb |-> client, file |-> file,
             obj |-> obj,
             sync |-> SyncRec(file_name, TRUE, FALSE, <<>>, <<>>, FALSE, FALSE)]
       ELSE LET file_bytes == file.lines
                rm == StorageRemove(obj, env.del)
                up == StorageUpload(rm.obj, file_bytes, env.up)
                ops == << [op |-> "remove", how |-> rm.how],
                          [op |-> "upload", how |-> up.how] >>
            IN [ret |-> TRUE, sb |-> client, file |-> file,
                obj |-> up.obj,
                sync |-> SyncRec(file_name, TRUE, TRUE, file_bytes, ops,
                                 FALSE, TRUE)]

\* upload_csv_to_supabase without the try/except of lines 157 and 173: what
\* open() or the upload raises leaves the function.
upload_csv_to_supabase_Raises(file_name, sb, file, obj, env) ==
    LET client == get_supabase_client(sb, env.createOk)
    IN IF ~client
       THEN [ret |-> FALSE, sb |-> client, file |-> file,
             obj |-> obj,
             sync |-> SyncRec(file_name, FALSE, FALSE, <<>>, <<>>, FALSE, FALSE)]
       ELSE IF ~(file.exists /\ env.readOk)
       THEN [ret |-> FALSE, sb |-> client, file |-> file,
             obj |-> obj,
             sync |-> SyncRec(file_name, TRUE, FALSE, <<>>, <<>>, TRUE, FALSE)]
       ELSE LET file_bytes == file.lines
                rm == StorageRemove(obj, env.del)
                up == StorageUpload(rm.obj, file_bytes, env.up)
                ops == << [op |-> "remove", how |-> rm.how],
                          [op |-> "upload", how |-> up.how] >>
            IN [ret |-> ~up.raised, sb |-> client, file |-> file,
                obj |-> up.obj,
                sync |-> SyncRec(file_name, TRUE, TRUE, file_bytes, ops,
                                 up.raised, ~up.raised)]

\* upload_csv_to_supabase without the inner try/except of lines 162-166: what
\* the remove raises is caught at line 173 and the upload is not attempted.
upload_csv_to_supabase_RemoveAborts(file_name, sb, file, obj, env) ==
    LET client == get_supabase_client(sb, env.createOk)
    IN IF ~client
       THEN [ret |-> FALSE, sb |-> client, file |-> file,
             obj |-> obj,
             sync |-> SyncRec(file_name, FALSE, FALSE, <<>>, <<>>, FALSE, FALSE)]
       ELSE IF ~(file.exists /\ env.readOk)
       THEN [ret |-> FALSE, sb |-> client, file |-> file,
             obj |-> obj,
             sync |-> SyncRec(file_name, TRUE, FALSE, <<>>, <<>>, FALSE, FALSE)]
       ELSE LET file_bytes == file.lines
                rm == StorageRemove(obj, env.del)
                up == StorageUpload(rm.obj, file_bytes, env.up)
                ops == << [op |-> "remove", how |-> rm.how],
                          [op |-> "upload", how |-> up.how] >>
            IN IF rm.raised
               THEN [ret |-> FALSE, sb |-> client, file |-> file,
                     obj |-> rm.obj,
                     sync |-> SyncRec(file_name, TRUE, TRUE, file_bytes,
                                      <<ops[1]>>, FALSE, FALSE)]
               ELSE [ret |-> ~up.raised, sb |-> client, file |-> file,
                     obj |-> up.obj,
                     sync |-> SyncRec(file_name, TRUE, TRUE, file_bytes, ops,
                                      FALSE, ~up.raised)]

\* upload_csv_to_supabase that deletes the local file once it was uploaded
\* (a move instead of a copy).
upload_csv_to_supabase_MovesFile(file_name, sb, file, obj, env) ==
    LET client == get_supabase_client(sb, env.createOk)
    IN IF ~client
       THEN [ret |-> FALSE, sb |-> client, file |-> file,
             obj |-> obj,
             sync |-> SyncRec(file_name, FALSE, FALSE, <<>>, <<>>, FALSE, FALSE)]
       ELSE IF ~(file.exists /\ env.readOk)
       THEN [ret |-> FALSE, sb |-> client, file |-> file,
             obj |-> obj,
             sync |-> SyncRec(file_name, TRUE, FALSE, <<>>, <<>>, FALSE, FALSE)]
       ELSE LET file_bytes == file.lines
                rm == StorageRemove(obj, env.del)
                up == StorageUpload(rm.obj, file_bytes, env.up)
                ops == << [op |-> "remove", how |-> rm.how],
                          [op |-> "upload", how |-> up.how] >>
            IN [ret |-> ~up.raised, sb |-> client,
                file |-> IF up.raised THEN file ELSE NoFile,
                obj |-> up.obj,
                sync |-> SyncRec(file_name, TRUE, TRUE, file_bytes, ops,
                                 FALSE, ~up.raised)]

upload_csv_to_supabase(file_name, sb, file, obj, env) ==
    LET client == get_supabase_client(sb, env.createOk)
    IN IF ~client
       THEN [ret |-> FALSE, sb |-> client, file |-> file,
             obj |-> obj,
             sync |-> SyncRec(file_name, FALSE, FALSE, <<>>, <<>>, FALSE, FALSE)]
       ELSE IF ~(file.exists /\ env.readOk)
       THEN [ret |-> FALSE, sb |-> client, file |-> file,
             obj |-> obj,
             sync |-> SyncRec(file_name, TRUE, FALSE, <<>>, <<>>, FALSE, FALSE)]
       ELSE LET file_bytes == file.lines
                rm == StorageRemove(obj, env.del)
                up == StorageUpload(rm.obj, file_bytes, env.up)
                ops == << [op |-> "remove", how |-> rm.how],
                          [op |-> "upload", how |-> up.how] >>
            IN [ret |-> ~up.raised, sb |-> client, file |-> file,
                obj |-> up.obj,
                sync |-> SyncRec(file_name, TRUE, TRUE, file_bytes, ops,
                                 FALSE, ~up.raised)]

\* upload_all_csvs without the follower branch of lines 181-184.
upload_all_csvs_PostsOnly(sb, fs, bkt, envF, envP) ==
    LET hasP == fs[POSTS_CSV].exists
        u2 == upload_csv_to_supabase(POSTS_CSV, sb, fs[POSTS_CSV],
                                     bkt[POSTS_CSV], envP)
    IN [raised |-> hasP /\ u2.sync.raised,
        results |-> [followers |-> "unset",
                     posts |-> IF hasP /\ ~u2.sync.raised
                               THEN ToString(u2.ret) ELSE "unset",
                     status |-> "unset"],
        sb |-> IF hasP THEN u2.sb ELSE sb,
        fs |-> IF hasP THEN [fs EXCEPT ![POSTS_CSV] = u2.file] ELSE fs,
        bkt |-> [n \in Names |->
                   IF n = POSTS_CSV /\ hasP THEN u2.obj ELSE bkt[n]],
        syncs |-> IF hasP THEN <<u2.sync>> ELSE <<>>]

\* upload_all_csvs(): results maps a store to "True"/"False", or "unset" when
\* its file does not exist.  An exception out of the first call would end
\* the function.  fs is the working directory afterwards.
upload_all_csvs(sb, fs, bkt, envF, envP) ==
    LET hasF == fs[FOLLOWERS_CSV].exists
        u1 == upload_csv_to_supabase(FOLLOWERS_CSV, sb, fs[FOLLOWERS_CSV],
                                     bkt[FOLLOWERS_CSV], envF)
        sb1 == IF hasF THEN u1.sb ELSE sb
        fs1 == IF hasF THEN [fs EXCEPT ![FOLLOWERS_CSV] = u1.file] ELSE fs
        raised1 == hasF /\ u1.sync.raised
        hasP == ~raised1 /\ fs1[POSTS_CSV].exists
        u2 == upload_csv_to_supabase(POSTS_CSV, sb1, fs1[POSTS_CSV],
                                     bkt[POSTS_CSV], envP)
    IN [raised |-> raised1 \/ (hasP /\ u2.sync.raised),
        results |-> [followers |-> IF hasF /\ ~u1.sync.raised
                                   THEN ToString(u1.ret) ELSE "unset",
                     posts |-> IF hasP /\ ~u2.sync.raised
                               THEN ToString(u2.ret) ELSE "unset",
                     status |-> "unset"],
        sb |-> IF hasP THEN u2.sb ELSE sb1,
        fs |-> IF hasP THEN [fs1 EXCEPT ![POSTS_CSV] = u2.file] ELSE fs1,
        bkt |-> [n \in Names |->
                   IF n = FOLLOWERS_CSV /\ hasF THEN u1.obj
                   ELSE IF n = POSTS_CSV /\ hasP THEN u2.obj
                   ELSE bkt[n]],
        syncs |-> (IF hasF THEN <<u1.sync>> ELSE <<>>)
                  \o (IF hasP THEN <<u2.sync>> ELSE <<>>)]


\* ------------------------------------------------------------ environment
\* Page bodies session.get can return.
BodyGrouped  == <<"1", ",", "2", "3", "4", " ">> \o FollowersWord
BodyMarkup   == <<"<p>", "<b>", "1", "2", "3", "4", "</b>", " ", "F", "o", "l", "l", "o", "w",
                  "e", "r", "s", "</p>">>
BodyZero     == <<"0", " ">> \o FollowersWord
BodyKey      == <<"\"">> \o FollowerCountWord \o <<"\"", ":", "1", "2", "3", "4">>
BodyAuthwall == <<"s", "i", "g", "n", " ", "i", "n">>
Bodies       == {BodyGrouped, BodyMarkup, BodyZero, BodyKey, BodyAuthwall}

Responses ==
    {[kind |-> "exception", status |-> 0, text |-> <<>>],
     [kind |-> "response", status |-> 404, text |-> <<>>]}
    \cup {[kind |-> "response", status |-> 200, text |-> b] : b \in Bodies}

\* Pages given to extract_followers on its own.  A page is rendered from a
\* count: the count's decimal digits, plain or grouped in threes by commas.
DigitChars == <<"0", "1", "2", "3", "4", "5", "6", "7", "8", "9">>

RECURSIVE Plain(_)
Plain(n) ==
    IF n < 10 THEN <<DigitChars[n + 1]>>
    ELSE Plain(n \div 10) \o <<DigitChars[(n % 10) + 1]>>

Pad3(n) ==
    <<DigitChars[(n \div 100) + 1], DigitChars[((n \div 10) % 10) + 1],
      DigitChars[(n % 10) + 1]>>

RECURSIVE Grouped(_)
Grouped(n) ==
    IF n < 1000 THEN Plain(n)
    ELSE Grouped(n \div 1000) \o <<",">> \o Pad3(n % 1000)

Counts == {0, 7, 42, 999, 1000, 1234, 50000, 1234567}

\* What precedes the count, what separates it from the anchor phrase, the
\* anchor phrase in three letter cases, and what follows it.
Before ==
    {<<>>, <<"<p>">>, <<"x", " ">>, FollowerCountWord \o <<":", "9", " ">>}
Gaps  == {<<" ">>, <<"\n", "\t">>, <<"</b>", " ">>}
Words ==
    {FollowersWord,
     <<"F", "o", "l", "l", "o", "w", "e", "r", "s">>,
     <<"F", "O", "L", "L", "O", "W", "E", "R", "S">>}
After ==
    {<<>>, <<" ", "a", "r", "e">>, <<" ", "5", " ">> \o FollowersWord}

Page(kind, html, shown) == [kind |-> kind, html |-> html, shown |-> shown]

\* The count, white space, the anchor phrase.
AnchoredPages ==
    UNION {{Page("anchored", b \o num \o g \o w \o a, n) :
               b \in Before, g \in Gaps, w \in Words, a \in After,
               num \in {Plain(n), Grouped(n)}} : n \in Counts}

\* The count under the followerCount key only.
KeyPages ==
    UNION {{Page("key",
                 q \o FollowerCountWord \o q \o <<":">> \o g \o q \o num, n) :
               q \in {<<>>, <<"\"">>}, g \in {<<>>, <<" ">>},
               num \in {Plain(n), Grouped(n)}} : n \in Counts}

\* Pages neither pattern matches: no count, no anchor phrase, the phrase
\* before the count, the count joined to the phrase, part of the phrase.
PlainPages ==
    {Page("none", t, None) :
        t \in {<<>>, BodyAuthwall, FollowersWord,
               Plain(1234) \o FollowersWord,
               Plain(1234) \o <<"</p>", "<p>">> \o FollowersWord,
               FollowersWord \o <<" ">> \o Plain(12),
               <<"1", "2", " ", "f", "o", "l", "l", "o", "w">>,
               FollowerCountWord \o <<" ", "=", " ">> \o Plain(12)}}

Pages == AnchoredPages \cup KeyPages \cup PlainPages

NoPage == Page("", <<>>, None)
NotExtracted == [called |-> FALSE, value |-> None]

\* Update objects the API can return; "id" is the unique identifier.
Ids == {"a", "b"}
PostSet ==
    {[id |-> "a", text |-> "x"], [id |-> "a", text |-> "y"],
     [id |-> "b", text |-> "z", likes |-> "1"]}
Batches == UNION {[1..n -> PostSet] : n \in 1..MaxBatch}

JsonScalar(kind) == [kind |-> kind, items |-> <<>>]
JsonArray(items) == [kind |-> "array", items |-> items]
Element(kind, has, updates) == [kind |-> kind, has |-> has, updates |-> updates]

ApiData ==
    {JsonScalar("invalid"), JsonScalar("null"), JsonScalar("object"),
     JsonArray(<<>>),
     JsonArray(<<Element("string", FALSE, <<>>)>>),
     JsonArray(<<Element("object", FALSE, <<>>)>>),
     JsonArray(<<Element("object", TRUE, <<>>)>>)}
    \cup {JsonArray(<<Element("object", TRUE, b)>>) : b \in Batches}

ApiDown ==
    {[kind |-> "exception", status |-> 0, data |-> JsonScalar("null")],
     [kind |-> "response", status |-> 500, data |-> JsonScalar("null")]}

ApiResponses ==
    ApiDown \cup {[kind |-> "response", status |-> 200, data |-> d] : d \in ApiData}

\* One response of each kind of outcome of the post job: the transport
\* failures, a payload of the wrong shape, no new posts, and one batch.
CoreApiResponses ==
    ApiDown
    \cup {[kind |-> "response", status |-> 200, data |-> d] :
             d \in {JsonScalar("object"),
                    JsonArray(<<Element("object", TRUE, <<>>)>>),
                    JsonArray(<<Element("object", TRUE,
                                        <<[id |-> "a", text |-> "x"]>>)>>)}}

\* The page cannot be fetched.
DownResponses == {r \in Responses : r.kind = "exception"}

\* What the environment does during one upload_csv_to_supabase call for a
\* file: whether create_client succeeds (asked only while the global is None),
\* whether open() succeeds (it cannot when the file is missing), and how the
\* remove and the upload requests end (asked only once the file was read).
SyncEnvs(sb, file, remoteUp) ==
    LET quiet == [createOk : {TRUE}, readOk : {FALSE}, del : {"ok"}, up : {"ok"}]
        full  == [createOk : {TRUE}, readOk : {TRUE},
                  del : {"ok", "error"}, up : {"ok", "error"}]
        lost  == [createOk : {FALSE}, readOk : {FALSE}, del : {"ok"}, up : {"ok"}]
    IN IF ~sb /\ ~remoteUp THEN lost
       ELSE (IF sb THEN {} ELSE lost)
            \cup quiet
            \cup (IF file.exists THEN full ELSE {})

\* An object some earlier deployment left in the bucket.
Legacy == [exists |-> TRUE, bytes |-> <<Header({"legacy"})>>]


\* ----------------------------------------------------- history bookkeeping
\* What the follower job met, read off the environment's choices.
FollowerEvent(resp, diskOk) ==
    IF resp.kind = "exception" THEN "transport"
    ELSE IF resp.status # 200 THEN "transport"
    ELSE IF extract_followers(resp.text) = None THEN "miss"
    ELSE IF extract_followers(resp.text) = 0 THEN "zero"
    ELSE IF ~diskOk THEN "disk"
    ELSE "saved"

\* What the post job met, read off the environment's choices.
PostEvent(api, diskOk) ==
    IF api.kind = "exception" THEN "transport"
    ELSE IF api.status >= 400 THEN "transport"
    ELSE IF api.data.kind = "invalid" THEN "badjson"
    ELSE IF api.data.kind # "array" THEN "notarray"
    ELSE IF api.data.items = <<>> THEN "emptyarray"
    ELSE IF api.data.items[1].kind # "object" THEN "notobject"
    ELSE IF ~api.data.items[1].has THEN "noupdates"
    ELSE IF api.data.items[1].updates = <<>> THEN "emptyupdates"
    ELSE IF ~diskOk THEN "disk"
    ELSE "saved"

\* latest after the posts of a batch were submitted in order.
RECURSIVE Submit(_, _)
Submit(lat, batch) ==
    IF batch = <<>> THEN lat
    ELSE Submit([lat EXCEPT ![batch[1].id] = <<batch[1]>>], Tail(batch))

\* What is remembered of one upload_csv_to_supabase call: the call's own
\* record, and what it met: the local file, the remote object and the
\* supabase global before it, and what the environment did during it.
Entry(sync, fs, bkt, sb, env) ==
    [call |-> sync, local |-> fs[sync.name], before |-> bkt[sync.name],
     sb |-> sb, env |-> env]

\* No call yet; "" is no file name.
NoSync ==
    [call |-> SyncRec("", FALSE, FALSE, <<>>, <<>>, FALSE, FALSE),
     local |-> NoFile, before |-> Absent, sb |-> FALSE,
     env |-> [createOk |-> FALSE, readOk |-> FALSE, del |-> "ok", up |-> "ok"]]
NoPrev == [some |-> FALSE, clean |-> FALSE, ret |-> FALSE, same |-> FALSE]

Called(e) == e.call.name # ""

ClientAvailable(e) == e.sb \/ e.env.createOk

Readable(e) == e.local.exists /\ e.env.readOk

\* The call had a client and a readable file, and the remote store answered
\* each request it got: the remove removed the object or found none, the
\* upload created the object or rejected the name as taken.
Clean(e) ==
    /\ Called(e)
    /\ ClientAvailable(e)
    /\ Readable(e)
    /\ e.env.del = "ok"
    /\ e.env.up = "ok"

\* lastSync and prevSync after the calls in syncs (at most one per name),
\* made from the state fs, bkt, sb under the environments envOf[name].
SyncsOf(syncs, n) == SelectSeq(syncs, LAMBDA c : c.name = n)

LastAfter(last, syncs, fs, bkt, sb, envOf) ==
    [n \in Names |->
        IF SyncsOf(syncs, n) = <<>> THEN last[n]
        ELSE Entry(SyncsOf(syncs, n)[1], fs, bkt, sb, envOf[n])]

PrevAfter(prev, last, syncs, fs) ==
    [n \in Names |->
        IF SyncsOf(syncs, n) = <<>> THEN prev[n]
        ELSE [some  |-> Called(last[n]),
              clean |-> Clean(last[n]),
              ret   |-> last[n].call.ret,
              same  |-> last[n].local = fs[n]]]

SyncNames(syncs) == [k \in 1..Len(syncs) |-> syncs[k].name]

\* ------------------------------------------------------------------ state
VARIABLES
    supabase,        \* the module global: TRUE once a client was created
    files,           \* the working directory: file name -> CSV file
    bucket,          \* the remote bucket: object name -> object
    clock,           \* datetime.now(); also the number of the process
    pc,              \* where main() is: idle, followers, posts, upload, done
    client,          \* main's local
    followers,       \* main's local
    posts,           \* main's local
    upload_results,  \* main's local
    result,          \* status of the value main returned
    \* history of the run, kept for the properties
    fEvent,          \* what happened in the follower job of this run
    pEvent,          \* what happened in the post job of this run
    uploadStep,      \* notreached, skipped (no client) or ran
    syncLog,         \* the names upload_csv_to_supabase was called for in
                     \* this process, in call order
    lastSync,        \* per name, the last upload_csv_to_supabase call
    prevSync,        \* per name, a summary of the call before the last
    latest,          \* per id, the post last written by save_posts_data
    appended,        \* the rows written by save_follower_data, in call order
    bucketAtStart,   \* the bucket when main() started
    filesAtStart,    \* the working directory when main() started
    \* a call of extract_followers on its own
    page,            \* the page: its html and the count it was rendered from
    extracted        \* whether extract_followers was called, and its value

vars == <<supabase, files, bucket, clock, pc, client, followers, posts,
          upload_results, result, fEvent, pEvent, uploadStep, syncLog,
          lastSync, prevSync, latest, appended, bucketAtStart, filesAtStart,
          page, extracted>>

NoResults == [followers |-> "unset", posts |-> "unset", status |-> "unset"]

\* The state when the script starts in an empty working directory.
InitMain ==
    /\ supabase = FALSE
    /\ files = [n \in Names |-> NoFile]
    /\ \E obj \in {Absent, Legacy} : bucket = [n \in Names |-> obj]
    /\ clock = 1
    /\ pc = "idle"
    /\ client = FALSE
    /\ followers = None
    /\ posts = None
    /\ upload_results = NoResults
    /\ result = "none"
    /\ fEvent = "notrun"
    /\ pEvent = "notrun"
    /\ uploadStep = "notreached"
    /\ syncLog = <<>>
    /\ lastSync = [n \in Names |-> NoSync]
    /\ prevSync = [n \in Names |-> NoPrev]
    /\ latest = [i \in Ids |-> <<>>]
    /\ appended = <<>>
    /\ bucketAtStart = bucket
    /\ filesAtStart = files

Init ==
    /\ InitMain
    /\ page = NoPage
    /\ extracted = NotExtracted

\* ---------------------------------------------------------------- actions
\* main(), lines 194-200: the client is looked up before the jobs run.
MainStart(remoteUp) ==
    /\ pc = "idle"
    /\ \E createOk \in (IF supabase THEN {TRUE}
                         ELSE IF remoteUp THEN BOOLEAN ELSE {FALSE}) :
          /\ client' = get_supabase_client(supabase, createOk)
          /\ supabase' = get_supabase_client(supabase, createOk)
    /\ pc' = "followers"
    /\ UNCHANGED <<page, extracted>>
    /\ UNCHANGED <<files, bucket, clock, followers, posts, upload_results,
                   syncLog, bucketAtStart, filesAtStart, result, fEvent, pEvent, uploadStep, lastSync, prevSync,
                   latest, appended>>

\* main(), line 203: followers = fetch_linkedin_followers().  An exception
\* out of the job is caught at line 228 and ends main with status "error".
FollowerJob(pages) ==
    /\ pc = "followers"
    /\ \E resp \in pages, diskOk \in BOOLEAN :
          LET r  == fetch_linkedin_followers(files[FOLLOWERS_CSV], resp, clock,
                                             diskOk)
              ev == FollowerEvent(resp, diskOk)
          IN /\ ev \notin {"disk", "saved"} => diskOk
             /\ files' = [files EXCEPT ![FOLLOWERS_CSV] = r.file]
             /\ fEvent' = ev
             /\ appended' = IF ev = "saved"
                            THEN Append(appended,
                                        FollowerRow(get_followers(resp), clock))
                            ELSE appended
             /\ IF r.raised
                THEN /\ pc' = "done"
                     /\ result' = "error"
                     /\ UNCHANGED followers
                ELSE /\ pc' = "posts"
                     /\ followers' = r.ret
                     /\ UNCHANGED result
    /\ UNCHANGED <<page, extracted>>
    /\ UNCHANGED <<supabase, bucket, clock, client, posts, upload_results,
                   pEvent, uploadStep, syncLog, lastSync, prevSync, latest,
                   bucketAtStart, filesAtStart>>

\* The post job started without waiting for the follower job to return.
PostJob_BeforeFollowers(apis) ==
    /\ pc \in {"followers", "posts"}
    /\ \E api \in apis, diskOk \in BOOLEAN :
          LET r  == fetch_linkedin_posts(files[POSTS_CSV], api, diskOk)
              ev == PostEvent(api, diskOk)
          IN /\ ev \notin {"disk", "saved"} => diskOk
             /\ files' = [files EXCEPT ![POSTS_CSV] = r.file]
             /\ pEvent' = ev
             /\ latest' = IF ev = "saved"
                          THEN Submit(latest, api.data.items[1].updates)
                          ELSE latest
             /\ IF r.raised
                THEN /\ pc' = "done"
                     /\ result' = "error"
                     /\ UNCHANGED posts
                ELSE /\ pc' = IF pc = "posts" THEN "upload" ELSE pc
                     /\ posts' = r.ret
                     /\ UNCHANGED result
    /\ UNCHANGED <<page, extracted>>
    /\ UNCHANGED <<supabase, bucket, clock, client, followers, upload_results,
                   fEvent, uploadStep, syncLog, lastSync, prevSync, appended,
                   bucketAtStart, filesAtStart>>

\* main(), line 204: posts = fetch_linkedin_posts().
PostJob(apis) ==
    /\ pc = "posts"
    /\ \E api \in apis, diskOk \in BOOLEAN :
          LET r  == fetch_linkedin_posts(files[POSTS_CSV], api, diskOk)
              ev == PostEvent(api, diskOk)
          IN /\ ev \notin {"disk", "saved"} => diskOk
             /\ files' = [files EXCEPT ![POSTS_CSV] = r.file]
             /\ pEvent' = ev
             /\ latest' = IF ev = "saved"
                          THEN Submit(latest, api.data.items[1].updates)
                          ELSE latest
             /\ IF r.raised
                THEN /\ pc' = "done"
                     /\ result' = "error"
                     /\ UNCHANGED posts
                ELSE /\ pc' = "upload"
                     /\ posts' = r.ret
                     /\ UNCHANGED result
    /\ UNCHANGED <<page, extracted>>
    /\ UNCHANGED <<supabase, bucket, clock, client, followers, upload_results,
                   fEvent, uploadStep, syncLog, lastSync, prevSync, appended,
                   bucketAtStart, filesAtStart>>

\* main(), lines 206-226: the upload step, the summary and the return.
UploadStep ==
    /\ pc = "upload"
    /\ pc' = "done"
    /\ IF client
       THEN \E envF \in SyncEnvs(supabase, files[FOLLOWERS_CSV], TRUE),
                  envP \in SyncEnvs(supabase, files[POSTS_CSV], TRUE) :
               LET u == upload_all_csvs(supabase, files, bucket, envF, envP)
               IN /\ supabase' = u.sb
                  /\ files' = u.fs
                  /\ bucket' = u.bkt
                  /\ syncLog' = SyncNames(u.syncs)
                  /\ lastSync' = LastAfter(lastSync, u.syncs, files, bucket,
                                            supabase,
                                            [n \in Names |->
                                               IF n = FOLLOWERS_CSV
                                               THEN envF ELSE envP])
                  /\ prevSync' = PrevAfter(prevSync, lastSync, u.syncs, files)
                  /\ uploadStep' = "ran"
                  /\ IF u.raised
                     THEN /\ result' = "error"
                          /\ UNCHANGED upload_results
                     ELSE /\ result' = "success"
                          /\ upload_results' = u.results
       ELSE /\ upload_results' = [NoResults EXCEPT
                                     !.status = "supabase_unavailable"]
            /\ result' = "success"
            /\ uploadStep' = "skipped"
            /\ UNCHANGED <<supabase, files, bucket, syncLog, lastSync,
                           prevSync>>
    /\ UNCHANGED <<page, extracted>>
    /\ UNCHANGED <<clock, client, followers, posts, fEvent, pEvent,
                   latest, appended, bucketAtStart, filesAtStart>>

\* A process that calls upload_csv_to_supabase(file_path) on its own, without
\* main(), and ends.
DirectSync(remoteUp) ==
    /\ pc = "idle"
    /\ pc' = "done"
    /\ \E name \in Names :
       \E env \in SyncEnvs(supabase, files[name], remoteUp) :
          LET u == upload_csv_to_supabase(name, supabase, files[name],
                                          bucket[name], env)
          IN /\ supabase' = u.sb
             /\ files' = [files EXCEPT ![name] = u.file]
             /\ bucket' = [bucket EXCEPT ![name] = u.obj]
             /\ syncLog' = <<name>>
             /\ lastSync' = LastAfter(lastSync, <<u.sync>>, files, bucket,
                                       supabase, [n \in Names |-> env])
             /\ prevSync' = PrevAfter(prevSync, lastSync, <<u.sync>>, files)
    /\ UNCHANGED <<page, extracted>>
    /\ UNCHANGED <<clock, client, followers, posts, upload_results,
                   result, fEvent, pEvent, uploadStep, latest, appended,
                   bucketAtStart, filesAtStart>>

\* The process ends and the script is started again: the module globals and
\* main's locals are new, the working directory and the bucket are kept.
NewProcess ==
    /\ pc = "done"
    /\ clock < MaxRuns
    /\ clock' = clock + 1
    /\ supabase' = FALSE
    /\ pc' = "idle"
    /\ client' = FALSE
    /\ followers' = None
    /\ posts' = None
    /\ upload_results' = NoResults
    /\ result' = "none"
    /\ fEvent' = "notrun"
    /\ pEvent' = "notrun"
    /\ uploadStep' = "notreached"
    /\ syncLog' = <<>>
    /\ bucketAtStart' = bucket
    /\ filesAtStart' = files
    /\ UNCHANGED <<page, extracted>>
    /\ UNCHANGED <<files, bucket, lastSync, prevSync, latest, appended>>

\* Every page the follower job can meet, one API response of each kind.
Next ==
    \/ MainStart(TRUE)
    \/ FollowerJob(Responses)
    \/ PostJob(CoreApiResponses)
    \/ UploadStep
    \/ DirectSync(TRUE)
    \/ NewProcess

Spec == Init /\ [][Next]_vars

\* Every API response the post job can meet, while the page cannot be fetched
\* and no Supabase client can be created (main then only saves local files).
NextPosts ==
    \/ MainStart(FALSE)
    \/ FollowerJob(DownResponses)
    \/ PostJob(ApiResponses)
    \/ UploadStep
    \/ DirectSync(FALSE)
    \/ NewProcess

SpecPosts == Init /\ [][NextPosts]_vars


\* LinkedInFollowerExtractor().extract_followers(html) called on its own.
Extract ==
    /\ page # NoPage
    /\ ~extracted.called
    /\ extracted' = [called |-> TRUE, value |-> extract_followers(page.html)]
    /\ UNCHANGED <<supabase, files, bucket, clock, pc, client, followers,
                   posts, upload_results, result, fEvent, pEvent, uploadStep,
                   syncLog, lastSync, prevSync, latest, appended,
                   bucketAtStart, filesAtStart, page>>

InitExtract ==
    /\ InitMain
    /\ page \in Pages
    /\ extracted = NotExtracted

NextExtract == Extract

\* The extractor alone, on every page of Pages.
SpecExtract == InitExtract /\ [][NextExtract]_vars


\* ============================================================== properties
MainRan == result # "none"

FollowerNoValue == fEvent \in {"transport", "miss"}

PostDecodeFailure == pEvent \in {"badjson", "notarray", "emptyarray", "notobject"}

PostNoNewRecords == pEvent \in {"noupdates", "emptyupdates"}

Mirrors(n, file) == bucket[n] = [exists |-> TRUE, bytes |-> file.lines]

\* The column names of a CSV file: the fields of its header line.
Columns(file) == IF file.lines = <<>> THEN {} ELSE DOMAIN file.lines[1]

\* C1: when upload_csv_to_supabase is called twice in a row for a name, the
\* local file holding different content at each call, against a store that
\* answers every request (the remove removes or finds nothing, the create
\* rejects only a taken name), both calls return True and the remote object
\* holds the second content, whether or not an object existed beforehand.
C1_SyncTwiceLeavesSecondContent ==
    \A n \in Names :
        (/\ prevSync[n].some
         /\ prevSync[n].clean
         /\ Clean(lastSync[n])
         /\ ~prevSync[n].same)
        => /\ prevSync[n].ret
           /\ lastSync[n].call.ret
           /\ ~lastSync[n].call.raised
           /\ Mirrors(n, lastSync[n].local)

\* Two such calls were made for the follower log, the second one finding the
\* object the first one created.
C1_Witness ==
    /\ prevSync[FOLLOWERS_CSV].some
    /\ prevSync[FOLLOWERS_CSV].clean
    /\ Clean(lastSync[FOLLOWERS_CSV])
    /\ ~prevSync[FOLLOWERS_CSV].same
    /\ lastSync[FOLLOWERS_CSV].before.exists
    /\ lastSync[FOLLOWERS_CSV].call.ret
    /\ Mirrors(FOLLOWERS_CSV, lastSync[FOLLOWERS_CSV].local)

\* C2: whenever upload_csv_to_supabase returned True, the remote object of
\* that name holds exactly the lines of the local file the call read,
\* whatever the object held before; nothing of the prior object is left.
C2_SuccessfulSyncMirrorsLocal ==
    \A n \in Names :
        (Called(lastSync[n]) /\ lastSync[n].call.ret)
        => /\ lastSync[n].local.exists
           /\ Mirrors(n, lastSync[n].local)

\* A call returned True where the object existed with other content.
C2_Witness ==
    \E n \in Names :
        /\ Called(lastSync[n])
        /\ lastSync[n].call.ret
        /\ lastSync[n].before.exists
        /\ lastSync[n].before.bytes # lastSync[n].local.lines
        /\ Mirrors(n, lastSync[n].local)

\* C3: after every sequence of save_posts_data writes the post store holds
\* exactly one record per id ever written, with the content written last for
\* that id; ids of earlier batches that do not reappear are kept.
C3_PostStoreHoldsLatestOfEveryId ==
    LET rows == DataRows(files[POSTS_CSV])
        of(i) == {k \in 1..Len(rows) : rows[k]["id"] = i}
    IN \A i \in Ids :
          IF latest[i] = <<>> THEN of(i) = {}
          ELSE /\ Cardinality(of(i)) = 1
               /\ \A k \in of(i) : \A f \in DOMAIN latest[i][1] :
                     /\ f \in DOMAIN rows[k]
                     /\ rows[k][f] = latest[i][1][f]

\* C4: the follower log is its header, written once when the log was
\* created, followed by one row per save_follower_data call, in call order;
\* rows of earlier calls and earlier processes are never changed or removed.
C4_FollowerLogIsAppendOnly ==
    /\ files[FOLLOWERS_CSV].exists = (appended # <<>>)
    /\ files[FOLLOWERS_CSV].lines =
          IF appended = <<>> THEN <<>>
          ELSE <<Header(DOMAIN appended[1])>> \o appended

\* A second process appended to the log an earlier process had written.
C4_Witness ==
    /\ clock >= 2
    /\ fEvent = "saved"
    /\ Len(appended) >= 2
    /\ Len(files[FOLLOWERS_CSV].lines) = Len(appended) + 1

\* C5: in fetch_linkedin_posts a payload that is not an array, or an empty
\* array, gives None and leaves the post store unwritten; an array whose first
\* element has no or an empty updates collection gives 0 and leaves the post
\* store unwritten; the two values differ.
C5_DecodeFailureIsNotEmptyResult ==
    /\ pEvent \in {"notarray", "emptyarray"}
          => posts = None /\ files[POSTS_CSV] = filesAtStart[POSTS_CSV]
    /\ PostNoNewRecords
          => posts = 0 /\ files[POSTS_CSV] = filesAtStart[POSTS_CSV]
    /\ (pEvent \in {"notarray", "emptyarray"} \/ PostNoNewRecords)
          => pc \in {"upload", "done"} /\ result # "error"

\* The API returned an empty updates collection while a post file of an
\* earlier process exists.
C5_Witness ==
    /\ pEvent = "emptyupdates"
    /\ posts = 0
    /\ files[POSTS_CSV].exists
    /\ pc = "done"

\* C6: in a run of main whose post job got no new records, the post store is
\* unchanged and no remove or upload request is made for the post store's
\* object, also when a post file of an earlier run exists.
C6_NoSyncWithoutNewPosts ==
    (pc = "done" /\ MainRan /\ PostNoNewRecords)
    => /\ files[POSTS_CSV] = filesAtStart[POSTS_CSV]
       /\ \A k \in 1..Len(syncLog) :
             syncLog[k] = POSTS_CSV => lastSync[POSTS_CSV].call.ops = <<>>

\* C7: in a run of main whose follower job (post job) got no value, the remote
\* object of that store that existed before the run is neither removed nor
\* emptied, however the remove and the upload requests end.
C7_NoValueKeepsRemoteObject ==
    (pc = "done" /\ MainRan)
    => /\ (FollowerNoValue /\ bucketAtStart[FOLLOWERS_CSV].exists)
             => /\ bucket[FOLLOWERS_CSV].exists
                /\ bucket[FOLLOWERS_CSV].bytes # <<>>
       /\ ((pEvent = "transport" \/ PostDecodeFailure \/ PostNoNewRecords)
             /\ bucketAtStart[POSTS_CSV].exists)
             => /\ bucket[POSTS_CSV].exists
                /\ bucket[POSTS_CSV].bytes # <<>>

\* C8: a transport failure, an extraction miss or a decode failure in a job
\* makes the job return None without raising; main still runs the other job
\* and the upload step and returns status "success".
C8_JobFailuresDoNotAbortRun ==
    /\ FollowerNoValue => followers = None /\ result # "error"
    /\ (pEvent = "transport" \/ PostDecodeFailure)
          => posts = None /\ result # "error"
    /\ (pc = "done"
        /\ (FollowerNoValue \/ pEvent = "transport" \/ PostDecodeFailure))
          => /\ result = "success"
             /\ fEvent # "notrun"
             /\ pEvent # "notrun"
             /\ uploadStep # "notreached"

\* Both jobs failed, the upload step ran and main returned success.
C8_Witness ==
    /\ pc = "done"
    /\ fEvent = "transport"
    /\ pEvent = "notarray"
    /\ uploadStep = "ran"
    /\ result = "success"

\* C9: when the append to the follower log fails with a disk error, the post
\* job and the upload step are still executed in the same run.
C9_DiskFailureDoesNotSkipTheRun ==
    (pc = "done" /\ fEvent = "disk")
    => /\ pEvent # "notrun"
       /\ uploadStep # "notreached"

\* C10: upload_csv_to_supabase returns False and never raises when there is no
\* client, when the local file cannot be read or when the upload request
\* fails; upload_all_csvs then still calls it for the post file.
C10_FailedSyncReturnsFalse ==
    /\ \A n \in Names :
          Called(lastSync[n])
          => /\ ~lastSync[n].call.raised
             /\ (\/ ~ClientAvailable(lastSync[n])
                 \/ ~Readable(lastSync[n])
                 \/ lastSync[n].env.up = "error")
                   => ~lastSync[n].call.ret
    /\ (/\ pc = "done"
        /\ uploadStep = "ran"
        /\ syncLog # <<>>
        /\ syncLog[1] = FOLLOWERS_CSV
        /\ ~lastSync[FOLLOWERS_CSV].call.ret
        /\ files[POSTS_CSV].exists)
          => /\ Len(syncLog) = 2
             /\ syncLog[2] = POSTS_CSV
             /\ result = "success"

\* The follower upload failed at the upload request and the post file was
\* synced all the same.
C10_Witness ==
    /\ pc = "done"
    /\ syncLog = <<FOLLOWERS_CSV, POSTS_CSV>>
    /\ Readable(lastSync[FOLLOWERS_CSV])
    /\ lastSync[FOLLOWERS_CSV].env.up = "error"
    /\ ~lastSync[FOLLOWERS_CSV].call.ret
    /\ lastSync[POSTS_CSV].call.ret

\* C11: no call of upload_csv_to_supabase or upload_all_csvs changes the
\* follower log or the post store, whether the call succeeds or fails at the
\* remove or at the upload request.
C11_SyncLeavesLocalFilesUnchanged ==
    [][(pc = "upload" \/ (pc = "idle" /\ pc' = "done")) => files' = files]_vars

\* A call of this process read a file, met an error at the remove and at the
\* upload request, and the file is as the call found it.
C11_Witness ==
    \E n \in Names :
        /\ syncLog # <<>>
        /\ syncLog[Len(syncLog)] = n
        /\ Readable(lastSync[n])
        /\ lastSync[n].env.del = "error"
        /\ lastSync[n].env.up = "error"
        /\ ~lastSync[n].call.ret
        /\ files[n].exists
        /\ files[n] = lastSync[n].local

\* C12: the entry point never reaches a terminal state on its own: after the
\* first run of the two jobs main keeps running them and does not return.
C12_EntryPointNeverReturns ==
    ~(pc = "done" /\ MainRan)

\* C13: a run of main in which save_follower_data appended a row does not end
\* without an upload_csv_to_supabase call for the follower log.
C13_AppendIsFollowedBySync ==
    (pc = "done" /\ fEvent = "saved")
    => \E k \in 1..Len(syncLog) : syncLog[k] = FOLLOWERS_CSV

\* C13 as amended: a run of main that obtained the Supabase client at its
\* start and in which save_follower_data appended a row does not end without
\* an upload_csv_to_supabase call for the follower log, made on the log that
\* holds the new row.
C13_AppendIsFollowedBySyncGivenClient ==
    (pc = "done" /\ fEvent = "saved" /\ client)
    => /\ \E k \in 1..Len(syncLog) : syncLog[k] = FOLLOWERS_CSV
       /\ lastSync[FOLLOWERS_CSV].local = files[FOLLOWERS_CSV]
       /\ appended # <<>>
       /\ files[FOLLOWERS_CSV].lines[Len(files[FOLLOWERS_CSV].lines)]
             = appended[Len(appended)]

\* A row was appended to the log of an earlier process and the sync call was
\* made.
C13_Witness ==
    /\ pc = "done"
    /\ fEvent = "saved"
    /\ client
    /\ clock >= 2
    /\ Len(appended) >= 2
    /\ syncLog # <<>>
    /\ syncLog[1] = FOLLOWERS_CSV
    /\ lastSync[FOLLOWERS_CSV].local = files[FOLLOWERS_CSV]

\* C14: the ids of the rows of the post store are pairwise distinct, also
\* after a batch that holds two records of one id.
C14_PostIdsPairwiseDistinct ==
    LET rows == DataRows(files[POSTS_CSV])
    IN \A j, k \in 1..Len(rows) : j # k => rows[j]["id"] # rows[k]["id"]

\* C15: on a page that holds an integer, plain or with comma separators,
\* then white space, then "followers" in any letter case, extract_followers
\* returns that integer (the first one so placed); on a page no pattern
\* matches it returns None.
C15_ExtractorReturnsAnchoredCount ==
    extracted.called
    => /\ page.kind = "anchored" => extracted.value = page.shown
       /\ page.kind = "none" => extracted.value = None

\* The page "1,234,567 followers" followed by a second anchored count gave
\* 1234567.
C15_Witness ==
    /\ extracted.called
    /\ page.kind = "anchored"
    /\ page.shown = 1234567
    /\ page.html = Grouped(1234567) \o <<" ">> \o FollowersWord
                      \o <<" ", "5", " ">> \o FollowersWord
    /\ extracted.value = 1234567

\* C16: in every upload_csv_to_supabase call that had a client and read the
\* local file, the upload request is made after the remove request, however
\* the remove ended; the call returns False only when the upload request
\* failed, and a remove that raised for an absent object is followed by a
\* successful upload and True.
C16_RemoveFailureNeverBlocksUpload ==
    \A n \in Names :
        (Called(lastSync[n]) /\ ClientAvailable(lastSync[n])
            /\ Readable(lastSync[n]))
        => LET e == lastSync[n] IN
           /\ Len(e.call.ops) = 2
           /\ e.call.ops[1].op = "remove"
           /\ e.call.ops[2].op = "upload"
           /\ ~e.call.ret => e.call.ops[2].how \in {"conflict", "error"}
           /\ (e.env.del = "error" /\ ~e.before.exists /\ e.env.up = "ok")
                 => e.call.ret /\ Mirrors(n, e.local)

\* The remove raised, no object was in the way, and the upload went through.
C16_Witness ==
    \E n \in Names :
        /\ Called(lastSync[n])
        /\ Readable(lastSync[n])
        /\ lastSync[n].env.del = "error"
        /\ ~lastSync[n].before.exists
        /\ lastSync[n].call.ops[1].how = "error"
        /\ lastSync[n].call.ops[2].how = "created"
        /\ lastSync[n].call.ret
        /\ Mirrors(n, lastSync[n].local)

\* C17: no write of the post store removes a column: the columns of the store
\* before a step are columns of the store after it, and every line of the
\* store has the store's columns.
C17_PostColumnsNeverShrink ==
    [][/\ Columns(files[POSTS_CSV]) \subseteq Columns(files'[POSTS_CSV])
       /\ \A k \in 1..Len(files'[POSTS_CSV].lines) :
             DOMAIN files'[POSTS_CSV].lines[k] = Columns(files'[POSTS_CSV])]_vars

\* C18: the follower job appends one row whenever the extractor returned an
\* integer, 0 included, and then returns the count; it appends nothing and
\* returns None when the extractor returned no value.
C18_EveryCountIsAppended ==
    LET old == filesAtStart[FOLLOWERS_CSV]
        new == files[FOLLOWERS_CSV]
    IN /\ fEvent \in {"zero", "saved"}
            => /\ new.exists
               /\ DataRows(new) # <<>>
               /\ Len(DataRows(new)) = Len(DataRows(old)) + 1
               /\ followers # None
       /\ fEvent = "miss" => new = old /\ followers = None

\* C19: in a run of main the post job starts only after the follower job
\* returned, the upload step only after the post job returned, and none of
\* the three runs a second time.
C19_JobsRunInOrderOnce ==
    /\ fEvent = "notrun" => pEvent = "notrun"
    /\ pEvent = "notrun" => uploadStep = "notreached"
    /\ pc = "followers" => fEvent = "notrun"
    /\ pc = "posts" => fEvent # "notrun" /\ pEvent = "notrun"
    /\ pc = "upload" => pEvent # "notrun" /\ uploadStep = "notreached"
    /\ uploadStep # "notreached" => pc = "done"

\* Both jobs saved their data and the upload step ran.
C19_Witness ==
    /\ pc = "done"
    /\ fEvent = "saved"
    /\ pEvent = "saved"
    /\ uploadStep = "ran"
    /\ result = "success"

====
